---------------------------- MODULE Spec2Model ----------------------------
(***************************************************************************)
(* Model of the RELAY perception/action loop: relay/core/vision_engine.py  *)
(* (Oracle Client, Coordinate Mapper), relay/core/automation_engine.py     *)
(* (Safety Gate, actuator dispatch, click negotiation, verifier) and       *)
(* relay/core/task_controller.py (Task Controller).                        *)
(*                                                                         *)
(* Conventions                                                             *)
(*  - A target_description is the set of words of the text; the code only  *)
(*    ever asks whether a keyword occurs in description.lower().           *)
(*  - Every coordinate number is kept in units of 1/RatioDen, so that the  *)
(*    ratio form (0.5) and the pixel form (2) are both exact: Px(2) is the *)
(*    pixel 2, RatioDen \div 2 is the ratio 0.5.                           *)
(*  - A JSON number n is [num |-> n], a JSON string in a number's place is *)
(*    [str |-> s]; an absent key is absent from the record; null and the   *)
(*    empty list are <<>>; None and "" are "".                             *)
(***************************************************************************)
EXTENDS Integers, Sequences, FiniteSets, TLC

(***************************************************************************)
(* Bounds of the model                                                     *)
(***************************************************************************)
max_iterations == 3
max_failures == 2
MaxRuns == 2
ScreenWidth == 4
ScreenHeight == 3
RatioDen == 4

(***************************************************************************)
(* Program constants                                                       *)
(***************************************************************************)
max_click_retries == 3
VisionDestructiveConfidence == 8
GateDestructiveConfidence == 8
MinConfidence == 1
MaxConfidence == 10
DefaultConfidence == 5
FallbackConfidence == 1

Px(p) == p * RatioDen

Trunc(a, b) == IF a >= 0 THEN a \div b ELSE -((-a) \div b)

Screen == <<ScreenWidth, ScreenHeight>>

(***************************************************************************)
(* Words and keywords                                                      *)
(***************************************************************************)
Lower(word) ==
    CASE word = "Delete" -> "delete"
      [] word = "Remove" -> "remove"
      [] word = "Submit" -> "submit"
      [] word = "Format" -> "format"
      [] OTHER -> word

Contains(keyword, target_description) ==
    \E word \in target_description : Lower(word) = keyword

destructive_actions == {"delete", "format", "uninstall", "shutdown"}

destructive_keywords == {"delete", "remove", "uninstall", "format", "shutdown"}

confirmation_required == {"delete", "purchase", "confirm", "submit"}

valid_types ==
    {"click", "double_click", "right_click", "type", "scroll", "wait",
     "verify", "navigate", "hotkey", "move", "drag"}

click_actions == {"click", "double_click", "right_click", "navigate", "move", "drag"}

(***************************************************************************)
(* ActionPlan                                                              *)
(***************************************************************************)
Num(n) == [num |-> n]

IsNum(v) == DOMAIN v = {"num"}

ActionPlan(action_type, target_description, coordinates, text, confidence) ==
    [action_type |-> action_type,
     target_description |-> target_description,
     coordinates |-> coordinates,
     text |-> text,
     confidence |-> confidence,
     reasoning |-> "",
     verification_criteria |-> ""]

FallbackReasoning == "Vision analysis failed, taking safe fallback action"

_create_fallback_action ==
    [action_type |-> "wait",
     target_description |-> {"Waiting", "for", "system", "to", "stabilize"},
     coordinates |-> <<>>,
     text |-> "",
     confidence |-> Num(FallbackConfidence),
     reasoning |-> FallbackReasoning,
     verification_criteria |-> "Screen appears stable"]

NoPlan == [action_type |-> "none"]

(***************************************************************************)
(* Oracle Client: relay/core/vision_engine.py                              *)
(***************************************************************************)
Get(data, key, default) == IF key \in DOMAIN data THEN data[key] ELSE default

\* Faulty variant of _map_coordinates: a mapping that fails answers the
\* origin.
_map_coordinates_origin(screenshot_coords, shot, screen_info) ==
    LET x0 == screenshot_coords[1]
        y0 == screenshot_coords[2]
        ratio == 0 <= x0 /\ x0 <= Px(1) /\ 0 <= y0 /\ y0 <= Px(1)
        screenshot_x == IF ratio THEN x0 * shot[1] ELSE x0
        screenshot_y == IF ratio THEN y0 * shot[2] ELSE y0
    IN IF shot[1] = 0 \/ shot[2] = 0
          THEN <<0, 0>>
          ELSE << Px(Trunc(screenshot_x * screen_info[1], shot[1] * RatioDen)),
                  Px(Trunc(screenshot_y * screen_info[2], shot[2] * RatioDen)) >>

\* Coordinate Mapper.  shot is the screenshot's (width, height).  A zero
\* dimension raises ZeroDivisionError, which the mapper catches.
_map_coordinates(screenshot_coords, shot, screen_info) ==
    LET x0 == screenshot_coords[1]
        y0 == screenshot_coords[2]
        ratio == 0 <= x0 /\ x0 <= Px(1) /\ 0 <= y0 /\ y0 <= Px(1)
        screenshot_x == IF ratio THEN x0 * shot[1] ELSE x0
        screenshot_y == IF ratio THEN y0 * shot[2] ELSE y0
    IN IF shot[1] = 0 \/ shot[2] = 0
          THEN screenshot_coords
          ELSE << Px(Trunc(screenshot_x * screen_info[1], shot[1] * RatioDen)),
                  Px(Trunc(screenshot_y * screen_info[2], shot[2] * RatioDen)) >>

\* Faulty variant of _parse_action_response: the pixel form is preferred to
\* the ratio form.
_parse_action_response_absolute(response) ==
    IF response.kind = "garbage"
       THEN _create_fallback_action
       ELSE LET data == response.data
                pct == Get(data, "coordinates_pct", <<>>)
                abs == Get(data, "coordinates", <<>>)
                coordinates ==
                    IF abs # <<>> /\ Len(abs) = 2 THEN abs
                    ELSE IF pct # <<>> /\ Len(pct) = 2 THEN pct
                    ELSE <<>>
            IN [action_type |-> Get(data, "action_type", "wait"),
                target_description |-> Get(data, "target_description", {"Unknown", "target"}),
                coordinates |-> coordinates,
                text |-> Get(data, "text", ""),
                confidence |-> Get(data, "confidence", Num(DefaultConfidence)),
                reasoning |-> Get(data, "reasoning", ""),
                verification_criteria |-> Get(data, "verification_criteria", "")]

\* response.kind: "error" (the request raised), "garbage" (text with no
\* parseable object), "json" (text holding the object response.data).
_parse_action_response(response) ==
    IF response.kind = "garbage"
       THEN _create_fallback_action
       ELSE LET data == response.data
                pct == Get(data, "coordinates_pct", <<>>)
                abs == Get(data, "coordinates", <<>>)
                coordinates ==
                    IF pct # <<>> /\ Len(pct) = 2 THEN pct
                    ELSE IF abs # <<>> /\ Len(abs) = 2 THEN abs
                    ELSE <<>>
            IN [action_type |-> Get(data, "action_type", "wait"),
                target_description |-> Get(data, "target_description", {"Unknown", "target"}),
                coordinates |-> coordinates,
                text |-> Get(data, "text", ""),
                confidence |-> Get(data, "confidence", Num(DefaultConfidence)),
                reasoning |-> Get(data, "reasoning", ""),
                verification_criteria |-> Get(data, "verification_criteria", "")]

\* Comparing a confidence that is not a number raises TypeError.
ValidateRaises(action_plan) == ~IsNum(action_plan.confidence)

\* Faulty variant of _validate_action_plan: the confidence range is not
\* tested.
_validate_action_plan_unranged(action_plan) ==
    LET confidence == action_plan.confidence.num
    IN IF (\E destructive \in destructive_actions :
               Contains(destructive, action_plan.target_description))
          /\ confidence < VisionDestructiveConfidence
          THEN FALSE
       ELSE IF action_plan.action_type \notin valid_types
          THEN FALSE
       ELSE IF action_plan.action_type \in click_actions /\ action_plan.coordinates = <<>>
          THEN FALSE
       ELSE TRUE

_validate_action_plan(action_plan) ==
    LET confidence == action_plan.confidence.num
    IN IF (\E destructive \in destructive_actions :
               Contains(destructive, action_plan.target_description))
          /\ confidence < VisionDestructiveConfidence
          THEN FALSE
       ELSE IF ~(MinConfidence <= confidence /\ confidence <= MaxConfidence)
          THEN FALSE
       ELSE IF action_plan.action_type \notin valid_types
          THEN FALSE
       ELSE IF action_plan.action_type \in click_actions /\ action_plan.coordinates = <<>>
          THEN FALSE
       ELSE TRUE

\* Faulty variant of analyze_screenshot: the result of validation is
\* ignored, so a refused plan is returned as it is.
analyze_screenshot_unvalidated(response, shot, screen_info) ==
    IF response.kind = "error"
       THEN _create_fallback_action
       ELSE LET parsed == _parse_action_response(response)
                action_plan ==
                    IF parsed.coordinates # <<>>
                       THEN [parsed EXCEPT !.coordinates =
                                _map_coordinates(parsed.coordinates, shot, screen_info)]
                       ELSE parsed
            IN IF ValidateRaises(action_plan) THEN _create_fallback_action
               ELSE action_plan

analyze_screenshot(response, shot, screen_info) ==
    IF response.kind = "error"
       THEN _create_fallback_action
       ELSE LET parsed == _parse_action_response(response)
                action_plan ==
                    IF parsed.coordinates # <<>>
                       THEN [parsed EXCEPT !.coordinates =
                                _map_coordinates(parsed.coordinates, shot, screen_info)]
                       ELSE parsed
            IN IF ValidateRaises(action_plan) THEN _create_fallback_action
               ELSE IF ~_validate_action_plan(action_plan) THEN _create_fallback_action
               ELSE action_plan

(***************************************************************************)
(* State                                                                   *)
(***************************************************************************)
VARIABLES
    \* TaskController
    current_task, task_status, context, should_stop, is_paused,
    status_callbacks, narration_callbacks, completion_callbacks,
    consecutive_failures, failure_history,
    \* AutomationEngine: the flag, and whether a VisionEngine is attached
    emergency_stop, vision_engine,
    \* the device: size of the frames it captures, and the gestures issued
    \* since the running execute_action call was entered
    screenshot_size, gestures,
    \* the worker threads (one per accepted execute_task) and their locals
    worker,
    \* the threads that call execute_task
    caller

controller_vars ==
    <<current_task, task_status, context, should_stop, is_paused,
      status_callbacks, narration_callbacks, completion_callbacks,
      consecutive_failures, failure_history>>

vars ==
    <<current_task, task_status, context, should_stop, is_paused,
      status_callbacks, narration_callbacks, completion_callbacks,
      consecutive_failures, failure_history, emergency_stop, vision_engine,
      screenshot_size, gestures, worker, caller>>

Workers == 1..MaxRuns

NoResponse == [kind |-> "none"]

NoResult == [none |-> TRUE]

ExecutionResult(success, error_message, before_screenshot) ==
    [success |-> success,
     error_message |-> error_message,
     before_screenshot |-> before_screenshot,
     after_screenshot |-> FALSE,
     action_verified |-> FALSE]

\* A thread's locals: its position, the oracle response and plan of the
\* iteration, the ExecutionResult, _execute_iteration's return value, the
\* click negotiation's point and attempt count, and the completion
\* notifications it has sent.  Three more fields record the calls the thread
\* has made to the oracle for the action in hand: the action history put in
\* the prompt of analyze_screenshot, each confirm_click call (the point shown
\* and the answer) and the number of verification calls.  mapped is the
\* return value of a direct call of _map_coordinates on the point (x, y).
\* diagnosed tells whether diagnose_failure was called for the iteration's
\* failure, failure_type is what it returned and slept the seconds the
\* recovery then waited; published counts the thread's _update_status calls;
\* raised tells whether an unforeseen exception was raised in the thread.
WorkerLocals ==
    [pc |-> "none", response |-> NoResponse, action_plan |-> NoPlan,
     result |-> NoResult, success |-> FALSE, valid |-> FALSE,
     x |-> 0, y |-> 0, attempts |-> 0, notified |-> <<>>,
     recent_actions |-> <<>>, confirmations |-> <<>>, verifications |-> 0,
     mapped |-> <<>>,
     diagnosed |-> FALSE, failure_type |-> "", slept |-> 0, published |-> 0,
     raised |-> FALSE]

Gesture(kind, at) == [kind |-> kind, at |-> at]

(***************************************************************************)
(* Safety Gate and actuator: relay/core/automation_engine.py               *)
(***************************************************************************)
InBounds(x, y, screen) ==
    0 <= x /\ x <= Px(screen[1]) /\ 0 <= y /\ y <= Px(screen[2])

allowed_actions ==
    {"click", "type", "scroll", "wait", "verify", "navigate", "hotkey",
     "move", "double_click", "right_click", "drag"}

\* Faulty variant of _validate_action_safety: the coordinates are not tested
\* against the screen.
_validate_action_safety_unbounded(action_plan, screen) ==
    IF action_plan.action_type \notin allowed_actions
       THEN FALSE
    ELSE IF (\E keyword \in destructive_keywords :
                Contains(keyword, action_plan.target_description))
            /\ action_plan.confidence.num < GateDestructiveConfidence
       THEN FALSE
    ELSE TRUE

_validate_action_safety(action_plan, screen) ==
    IF action_plan.action_type \notin allowed_actions
       THEN FALSE
    ELSE IF (\E keyword \in destructive_keywords :
                Contains(keyword, action_plan.target_description))
            /\ action_plan.confidence.num < GateDestructiveConfidence
       THEN FALSE
    ELSE IF action_plan.coordinates # <<>>
            /\ ~InBounds(action_plan.coordinates[1], action_plan.coordinates[2], screen)
       THEN FALSE
    ELSE TRUE

_requires_confirmation(action_plan) ==
    \E keyword \in confirmation_required :
        Contains(keyword, action_plan.target_description)

_get_user_confirmation(action_plan) == TRUE

\* The head of execute_action: "" when the plan goes on to dispatch, else
\* the error_message of the failed ExecutionResult it returns.
execute_action_denial(action_plan, stop, screen) ==
    IF stop THEN "Emergency stop activated"
    ELSE IF ~_validate_action_safety(action_plan, screen)
       THEN "Action blocked by safety controls"
    ELSE IF _requires_confirmation(action_plan) /\ ~_get_user_confirmation(action_plan)
       THEN "User declined confirmation"
    ELSE ""

ExecuteAction(w) ==
    /\ worker[w].pc = "execute_action"
    /\ LET denial == execute_action_denial(worker[w].action_plan, emergency_stop, Screen)
       IN worker' = [worker EXCEPT ![w] =
              [@ EXCEPT !.pc = IF denial = "" THEN "dispatch" ELSE "handle",
                        !.confirmations = <<>>,
                        !.verifications = 0,
                        !.result = ExecutionResult(FALSE, denial, FALSE)]]
    /\ gestures' = <<>>
    /\ UNCHANGED <<controller_vars, emergency_stop, vision_engine, screenshot_size, caller>>

\* What each handler other than _execute_click does with the device: the
\* error it returns at once, or the gestures it issues in order and whether
\* its ExecutionResult carries a before_screenshot.  (_execute_drag's
\* "from x,y to x,y" text form is not modelled: a drag starts at the plan's
\* coordinates and ends 100 pixels right of and below them.)
Actuation(action_plan) ==
    LET t == action_plan.action_type
        c == action_plan.coordinates
        none(error) == [error |-> error, gestures |-> <<>>, before |-> FALSE]
        some(g, before) == [error |-> "", gestures |-> g, before |-> before]
    IN CASE t = "double_click" ->
                IF c = <<>> THEN none("No coordinates provided for double-click action")
                ELSE some(<<Gesture("moveTo", c), Gesture("doubleClick", c)>>, TRUE)
         [] t = "right_click" ->
                IF c = <<>> THEN none("No coordinates provided for right-click action")
                ELSE some(<<Gesture("moveTo", c), Gesture("rightClick", c)>>, TRUE)
         [] t = "type" ->
                IF action_plan.text = "" THEN none("No text provided for type action")
                ELSE some(<<Gesture("typewrite", <<>>)>>, TRUE)
         [] t = "scroll" -> some(<<Gesture("scroll", <<>>)>>, TRUE)
         [] t = "wait" -> some(<<>>, FALSE)
         [] t = "verify" -> some(<<>>, FALSE)
         [] t = "navigate" ->
                IF c # <<>> THEN some(<<Gesture("moveTo", c), Gesture("click", c)>>, TRUE)
                ELSE some(<<Gesture("hotkey", <<>>)>>, TRUE)
         [] t = "hotkey" ->
                IF action_plan.text = "" THEN none("No hotkey combination provided")
                ELSE some(<<Gesture("hotkey", <<>>)>>, TRUE)
         [] t = "move" ->
                IF c = <<>> THEN none("No coordinates provided for move action")
                ELSE some(<<Gesture("moveTo", c)>>, FALSE)
         [] t = "drag" ->
                IF c = <<>> THEN none("No drag coordinates provided")
                ELSE some(<<Gesture("moveTo", c),
                            Gesture("drag", <<c[1] + Px(100), c[2] + Px(100)>>)>>, TRUE)
         [] OTHER -> none("Unknown action type")

\* A handler other than _execute_click.  A device call that raises ends the
\* handler with a failed result after the gestures issued before it.
ExecuteHandler(w) ==
    /\ worker[w].pc = "dispatch"
    /\ worker[w].action_plan.action_type # "click"
    /\ LET a == Actuation(worker[w].action_plan)
       IN \E k \in 0..Len(a.gestures) :
            /\ gestures' = gestures \o SubSeq(a.gestures, 1, k)
            /\ worker' = [worker EXCEPT ![w] =
                 [@ EXCEPT !.pc = "after",
                           !.result =
                              IF a.error # "" THEN ExecutionResult(FALSE, a.error, FALSE)
                              ELSE IF k < Len(a.gestures)
                                 THEN ExecutionResult(FALSE, "execution failed", FALSE)
                              ELSE ExecutionResult(TRUE, "", a.before)]]
    /\ UNCHANGED <<controller_vars, emergency_stop, vision_engine, screenshot_size, caller>>

\* _execute_click up to the confirmation loop: the handler's own bounds
\* check, then the pointer moves to the proposed point without clicking; the
\* loop is entered if an oracle is attached (self.vision_engine is not None).
ExecuteClickBeginWith(w, oracle) ==
    /\ worker[w].pc = "dispatch"
    /\ worker[w].action_plan.action_type = "click"
    /\ LET c == worker[w].action_plan.coordinates
       IN IF c = <<>>
             THEN /\ worker' = [worker EXCEPT ![w] =
                        [@ EXCEPT !.pc = "after",
                                  !.result = ExecutionResult(FALSE,
                                      "No coordinates provided for click action", FALSE)]]
                  /\ UNCHANGED gestures
          ELSE IF ~InBounds(c[1], c[2], Screen)
             THEN /\ worker' = [worker EXCEPT ![w] =
                        [@ EXCEPT !.pc = "after",
                                  !.result = ExecutionResult(FALSE,
                                      "Coordinates outside screen bounds", FALSE)]]
                  /\ UNCHANGED gestures
          ELSE \E raised \in BOOLEAN :
                  IF raised
                     THEN /\ worker' = [worker EXCEPT ![w] =
                                [@ EXCEPT !.pc = "after",
                                          !.result = ExecutionResult(FALSE,
                                              "Click execution failed", FALSE)]]
                          /\ UNCHANGED gestures
                     ELSE /\ worker' = [worker EXCEPT ![w] =
                                [@ EXCEPT !.pc = IF oracle THEN "confirm" ELSE "click",
                                          !.x = c[1], !.y = c[2], !.attempts = 0]]
                          /\ gestures' = Append(gestures, Gesture("moveTo", c))
    /\ UNCHANGED <<controller_vars, emergency_stop, vision_engine, screenshot_size, caller>>

\* Faulty variant of ExecuteClickBegin: the negotiation is entered whether or
\* not an oracle is attached.
ExecuteClickBeginNegotiating(w) == ExecuteClickBeginWith(w, TRUE)

ExecuteClickBegin(w) == ExecuteClickBeginWith(w, vision_engine)

\* What confirm_click can return: a confirmation, a refusal with or without
\* another point (in the screen or outside it).  A confirmation call that
\* fails returns a refusal without a point.
ConfirmResults ==
    {[confirm |-> TRUE, suggested_coordinates |-> <<>>],
     [confirm |-> FALSE, suggested_coordinates |-> <<>>],
     [confirm |-> FALSE, suggested_coordinates |-> <<Px(1), Px(2)>>],
     [confirm |-> FALSE, suggested_coordinates |-> <<Px(ScreenWidth + 1), Px(1)>>]}

\* One pass of _execute_click's confirmation loop under a retry budget, with
\* the test that follows the loop when this pass ends it.
ConfirmClickWithin(w, max_retries) ==
    /\ worker[w].pc = "confirm"
    /\ worker[w].attempts < max_retries
    /\ \E confirm_result \in ConfirmResults, raised \in BOOLEAN :
         LET suggested == confirm_result.suggested_coordinates
             attempts == worker[w].attempts + 1
             call == [at |-> <<worker[w].x, worker[w].y>>,
                      confirm |-> confirm_result.confirm,
                      suggested_coordinates |-> suggested]
         IN IF confirm_result.confirm
               THEN /\ worker' = [worker EXCEPT ![w] =
                          [@ EXCEPT !.pc = "click",
                                    !.confirmations = Append(@, call)]]
                    /\ UNCHANGED gestures
            ELSE IF suggested = <<>>
               THEN /\ worker' = [worker EXCEPT ![w] =
                          [@ EXCEPT !.pc = "after",
                                    !.confirmations = Append(@, call),
                                    !.result = ExecutionResult(FALSE,
                                        "Click not confirmed by AI", FALSE)]]
                    /\ UNCHANGED gestures
            ELSE IF raised
               THEN /\ worker' = [worker EXCEPT ![w] =
                          [@ EXCEPT !.pc = "after",
                                    !.x = suggested[1], !.y = suggested[2],
                                    !.confirmations = Append(@, call),
                                    !.result = ExecutionResult(FALSE,
                                        "Click execution failed", FALSE)]]
                    /\ UNCHANGED gestures
            ELSE /\ gestures' = Append(gestures, Gesture("moveTo", suggested))
                 /\ worker' = [worker EXCEPT ![w] =
                       [@ EXCEPT !.x = suggested[1], !.y = suggested[2],
                                 !.attempts = attempts,
                                 !.confirmations = Append(@, call),
                                 !.pc = IF attempts < max_retries
                                           THEN "confirm" ELSE "after",
                                 !.result =
                                    IF attempts < max_retries THEN @
                                    ELSE ExecutionResult(FALSE,
                                        "Max confirmation attempts reached without approval",
                                        FALSE)]]
    /\ UNCHANGED <<controller_vars, emergency_stop, vision_engine, screenshot_size, caller>>

\* Faulty variant of ConfirmClick: the loop allows two passes more than
\* max_click_retries.
ConfirmClickOverBudget(w) == ConfirmClickWithin(w, max_click_retries + 2)

ConfirmClick(w) == ConfirmClickWithin(w, max_click_retries)

\* The click itself, at the point the pointer was last moved to.
ClickAt(w, point) ==
    /\ worker[w].pc = "click"
    /\ \E raised \in BOOLEAN :
         IF raised
            THEN /\ worker' = [worker EXCEPT ![w] =
                       [@ EXCEPT !.pc = "after",
                                 !.result = ExecutionResult(FALSE,
                                     "Click execution failed", FALSE)]]
                 /\ UNCHANGED gestures
            ELSE /\ worker' = [worker EXCEPT ![w] =
                       [@ EXCEPT !.pc = "after",
                                 !.result = ExecutionResult(TRUE, "", TRUE)]]
                 /\ gestures' = Append(gestures, Gesture("click", point))
    /\ UNCHANGED <<controller_vars, emergency_stop, vision_engine, screenshot_size, caller>>

\* Faulty variant of Click: the click lands on the plan's point, whatever
\* point the negotiation has moved to.
ClickProposed(w) == ClickAt(w, worker[w].action_plan.coordinates)

Click(w) == ClickAt(w, <<worker[w].x, worker[w].y>>)

\* _verify_action_success, given the verifier's answer (a verification call
\* that fails or cannot be parsed answers "not verified").
_verify_action_success(result, verified) ==
    IF ~(result.before_screenshot /\ result.after_screenshot)
       THEN [result EXCEPT !.action_verified = FALSE]
    ELSE IF verified
       THEN [result EXCEPT !.action_verified = TRUE]
    ELSE [result EXCEPT !.action_verified = FALSE,
                        !.success = FALSE,
                        !.error_message = "Action verification failed"]

\* The tail of execute_action: the after-frame, then the verifier.
AfterAction(w) ==
    /\ worker[w].pc = "after"
    /\ \E verified \in BOOLEAN :
         LET result == [worker[w].result EXCEPT !.after_screenshot = TRUE]
         IN worker' = [worker EXCEPT ![w] =
                [@ EXCEPT !.pc = "handle",
                          !.verifications =
                              IF /\ vision_engine
                                 /\ result.success
                                 /\ result.before_screenshot
                                 /\ result.after_screenshot
                                 THEN @ + 1 ELSE @,
                          !.result = IF vision_engine /\ result.success
                                        THEN _verify_action_success(result, verified)
                                        ELSE result]]
    /\ UNCHANGED <<controller_vars, emergency_stop, vision_engine, screenshot_size,
                   gestures, caller>>

(***************************************************************************)
(* Task Controller: relay/core/task_controller.py                          *)
(***************************************************************************)
TaskStatus(is_running) ==
    [is_running |-> is_running,
     is_complete |-> FALSE,
     current_iteration |-> 0,
     total_actions |-> 0,
     successful_actions |-> 0,
     failed_actions |-> 0,
     current_action |-> "",
     error_message |-> ""]

NoContext == [none |-> TRUE]

\* previous_actions and screenshots_history hold, for each entry, the
\* iteration that produced it: the code appends to them, evicts the oldest
\* frame and reads the last five actions, and never looks inside an entry.
VisionContext(task_description) ==
    [task_description |-> task_description,
     previous_actions |-> <<>>,
     screenshots_history |-> <<>>,
     iteration_count |-> 0]

MaxFrames == 10

\* The number of workers started so far, which is also the last one's id.
Runs == Cardinality({w \in Workers : worker[w].pc # "none"})

Alive(w) == worker[w].pc \notin {"none", "done"}

\* _notify_completion, as the worker's record of the calls it has made.
Notify(locals, success, message) ==
    [locals EXCEPT !.notified = Append(@, [success |-> success, message |-> message])]

\* Faulty variant of CallExecuteTask: the observers are registered before
\* is_running is tested, so a refused call leaves them behind.
CallExecuteTaskRegistering(c) ==
    /\ caller[c].pc = "idle"
    /\ LET task == Runs + 1
       IN /\ status_callbacks' = Append(status_callbacks, task)
          /\ narration_callbacks' = Append(narration_callbacks, task)
          /\ completion_callbacks' = Append(completion_callbacks, task)
          /\ IF task_status.is_running
                THEN caller' = [caller EXCEPT ![c] =
                         [pc |-> "idle", task |-> task, ret |-> "False"]]
                ELSE /\ Runs + Cardinality({d \in DOMAIN caller : caller[d].pc = "admitted"})
                           < MaxRuns
                     /\ caller' = [caller EXCEPT ![c] =
                           [pc |-> "admitted", task |-> task, ret |-> "pending"]]
    /\ UNCHANGED <<current_task, task_status, context, should_stop, is_paused,
                   consecutive_failures, failure_history, emergency_stop,
                   vision_engine, screenshot_size, gestures, worker>>

\* execute_task, first half: the test of line 69.  A refused call returns
\* False at once; an admitted one goes on to StartTask.  The argument is the
\* ordinal of the run the call would start, used as the task description
\* and as the observer the call passes for each of the three channels.
CallExecuteTask(c) ==
    /\ caller[c].pc = "idle"
    /\ LET task == Runs + 1
       IN IF task_status.is_running
             THEN caller' = [caller EXCEPT ![c] =
                      [pc |-> "idle", task |-> task, ret |-> "False"]]
             ELSE /\ Runs + Cardinality({d \in DOMAIN caller : caller[d].pc = "admitted"})
                        < MaxRuns
                  /\ caller' = [caller EXCEPT ![c] =
                        [pc |-> "admitted", task |-> task, ret |-> "pending"]]
    /\ UNCHANGED <<controller_vars, emergency_stop, vision_engine, screenshot_size,
                   gestures, worker>>

\* Faulty variant of StartTask: the emergency-stop flag is cleared with the
\* other flags.
StartTaskClearing(c) ==
    /\ caller[c].pc = "admitted"
    /\ status_callbacks' = Append(status_callbacks, caller[c].task)
    /\ narration_callbacks' = Append(narration_callbacks, caller[c].task)
    /\ completion_callbacks' = Append(completion_callbacks, caller[c].task)
    /\ current_task' = caller[c].task
    /\ task_status' = TaskStatus(TRUE)
    /\ should_stop' = FALSE
    /\ is_paused' = FALSE
    /\ consecutive_failures' = 0
    /\ failure_history' = <<>>
    /\ emergency_stop' = FALSE
    /\ worker' = [w \in Workers |->
                     IF w = Runs + 1 THEN [WorkerLocals EXCEPT !.pc = "start"]
                     ELSE IF worker[w].pc = "done" THEN [WorkerLocals EXCEPT !.pc = "done"]
                     ELSE worker[w]]
    /\ caller' = [caller EXCEPT ![c] = [@ EXCEPT !.pc = "idle", !.ret = "True"]]
    /\ UNCHANGED <<context, vision_engine, screenshot_size, gestures>>

\* execute_task, second half: lines 73-97.  The record of the notices sent by
\* the threads that have ended is dropped when a new thread is started.
StartTask(c) ==
    /\ caller[c].pc = "admitted"
    /\ status_callbacks' = Append(status_callbacks, caller[c].task)
    /\ narration_callbacks' = Append(narration_callbacks, caller[c].task)
    /\ completion_callbacks' = Append(completion_callbacks, caller[c].task)
    /\ current_task' = caller[c].task
    /\ task_status' = TaskStatus(TRUE)
    /\ should_stop' = FALSE
    /\ is_paused' = FALSE
    /\ consecutive_failures' = 0
    /\ failure_history' = <<>>
    /\ worker' = [w \in Workers |->
                     IF w = Runs + 1 THEN [WorkerLocals EXCEPT !.pc = "start"]
                     ELSE IF worker[w].pc = "done" THEN [WorkerLocals EXCEPT !.pc = "done"]
                     ELSE worker[w]]
    /\ caller' = [caller EXCEPT ![c] = [@ EXCEPT !.pc = "idle", !.ret = "True"]]
    /\ UNCHANGED <<context, emergency_stop, vision_engine, screenshot_size, gestures>>

stop_task ==
    /\ should_stop' = TRUE
    /\ UNCHANGED <<current_task, task_status, context, is_paused, status_callbacks,
                   narration_callbacks, completion_callbacks, consecutive_failures,
                   failure_history, emergency_stop, vision_engine, screenshot_size,
                   gestures, worker, caller>>

pause_task ==
    /\ is_paused' = TRUE
    /\ UNCHANGED <<current_task, task_status, context, should_stop, status_callbacks,
                   narration_callbacks, completion_callbacks, consecutive_failures,
                   failure_history, emergency_stop, vision_engine, screenshot_size,
                   gestures, worker, caller>>

resume_task ==
    /\ is_paused' = FALSE
    /\ UNCHANGED <<current_task, task_status, context, should_stop, status_callbacks,
                   narration_callbacks, completion_callbacks, consecutive_failures,
                   failure_history, emergency_stop, vision_engine, screenshot_size,
                   gestures, worker, caller>>

activate_emergency_stop ==
    /\ emergency_stop' = TRUE
    /\ UNCHANGED <<controller_vars, vision_engine, screenshot_size, gestures, worker, caller>>

reset_emergency_stop ==
    /\ emergency_stop' = FALSE
    /\ UNCHANGED <<controller_vars, vision_engine, screenshot_size, gestures, worker, caller>>

\* _execute_task_loop, lines 102-111.
LoopStart(w) ==
    /\ worker[w].pc = "start"
    /\ context' = VisionContext(current_task)
    /\ worker' = [worker EXCEPT ![w].pc = "loop"]
    /\ UNCHANGED <<current_task, task_status, should_stop, is_paused, status_callbacks,
                   narration_callbacks, completion_callbacks, consecutive_failures,
                   failure_history, emergency_stop, vision_engine, screenshot_size,
                   gestures, caller>>

\* Faulty variant of LoopCheck: the iteration bound is tested with <=.
LoopCheckInclusive(w) ==
    /\ worker[w].pc = "loop"
    /\ worker' = [worker EXCEPT ![w].pc =
            IF /\ task_status.current_iteration <= max_iterations
               /\ ~should_stop
               /\ ~task_status.is_complete
               THEN "pause_check" ELSE "completion"]
    /\ UNCHANGED <<controller_vars, emergency_stop, vision_engine, screenshot_size,
                   gestures, caller>>

\* The while condition of line 114; leaving the loop leads to line 146.
LoopCheck(w) ==
    /\ worker[w].pc = "loop"
    /\ worker' = [worker EXCEPT ![w].pc =
            IF /\ task_status.current_iteration < max_iterations
               /\ ~should_stop
               /\ ~task_status.is_complete
               THEN "pause_check" ELSE "completion"]
    /\ UNCHANGED <<controller_vars, emergency_stop, vision_engine, screenshot_size,
                   gestures, caller>>

\* The while condition of line 114 in a controller configured (main.py,
\* line 184) with max_iterations = limit.
LoopCheckConfigured(w, limit) ==
    /\ worker[w].pc = "loop"
    /\ worker' = [worker EXCEPT ![w].pc =
            IF /\ task_status.current_iteration < limit
               /\ ~should_stop
               /\ ~task_status.is_complete
               THEN "pause_check" ELSE "completion"]
    /\ UNCHANGED <<controller_vars, emergency_stop, vision_engine, screenshot_size,
                   gestures, caller>>

\* Faulty variant of PauseCheck: the flag is not polled.
PauseCheckUnpolled(w) ==
    /\ worker[w].pc = "pause_check"
    /\ worker' = [worker EXCEPT ![w].pc = "emergency_check"]
    /\ UNCHANGED <<controller_vars, emergency_stop, vision_engine, screenshot_size,
                   gestures, caller>>

\* Lines 119-121.
PauseCheck(w) ==
    /\ worker[w].pc = "pause_check"
    /\ worker' = [worker EXCEPT ![w].pc = IF is_paused THEN "loop" ELSE "emergency_check"]
    /\ UNCHANGED <<controller_vars, emergency_stop, vision_engine, screenshot_size,
                   gestures, caller>>

\* Lines 124-126, with _handle_emergency_stop.
EmergencyCheck(w) ==
    /\ worker[w].pc = "emergency_check"
    /\ IF emergency_stop
          THEN /\ task_status' = [task_status EXCEPT
                                     !.error_message = "Emergency stop activated",
                                     !.is_running = FALSE]
               /\ worker' = [worker EXCEPT ![w] =
                     [Notify(worker[w], FALSE, "Emergency stop") EXCEPT !.pc = "completion"]]
          ELSE /\ worker' = [worker EXCEPT ![w].pc = "iteration"]
               /\ UNCHANGED task_status
    /\ UNCHANGED <<current_task, context, should_stop, is_paused, status_callbacks,
                   narration_callbacks, completion_callbacks, consecutive_failures,
                   failure_history, emergency_stop, vision_engine, screenshot_size,
                   gestures, caller>>

\* _execute_iteration, lines 154-165: the counter, then the frame capture,
\* which can fail.
BeginIteration(w, captures) ==
    /\ worker[w].pc = "iteration"
    /\ task_status' = [task_status EXCEPT !.current_iteration = @ + 1]
    /\ \E captured \in captures :
         IF captured
            THEN /\ context' = [context EXCEPT
                                   !.iteration_count = task_status.current_iteration + 1]
                 /\ worker' = [worker EXCEPT ![w].pc = "analyze"]
            ELSE /\ worker' = [worker EXCEPT ![w] =
                       [@ EXCEPT !.pc = "post", !.success = FALSE]]
                 /\ UNCHANGED context
    /\ UNCHANGED <<current_task, should_stop, is_paused, status_callbacks,
                   narration_callbacks, completion_callbacks, consecutive_failures,
                   failure_history, emergency_stop, vision_engine, screenshot_size,
                   gestures, caller>>

RecentActions == 5

\* Faulty variant of recent_actions: the first five actions are taken.
recent_actions_oldest(previous_actions) ==
    IF Len(previous_actions) <= RecentActions THEN previous_actions
    ELSE SubSeq(previous_actions, 1, RecentActions)

\* _build_context_messages, line 271: previous_actions[-5:], the part of the
\* action history that is put in the oracle's prompt.
recent_actions(previous_actions) ==
    IF Len(previous_actions) <= RecentActions THEN previous_actions
    ELSE SubSeq(previous_actions, Len(previous_actions) - RecentActions + 1,
                Len(previous_actions))

\* Lines 168-184: the oracle call and the plan it yields.
Analyze(w, responses) ==
    /\ worker[w].pc = "analyze"
    /\ \E response \in responses :
         LET action_plan == analyze_screenshot(response, screenshot_size, Screen)
         IN /\ worker' = [worker EXCEPT ![w] =
                  [@ EXCEPT !.pc = "execute_action",
                            !.response = response,
                            !.recent_actions = recent_actions(context.previous_actions),
                            !.action_plan = action_plan]]
            /\ task_status' = [task_status EXCEPT !.current_action = action_plan.action_type]
    /\ UNCHANGED <<current_task, context, should_stop, is_paused, status_callbacks,
                   narration_callbacks, completion_callbacks, consecutive_failures,
                   failure_history, emergency_stop, vision_engine, screenshot_size,
                   gestures, caller>>

\* The failure types named in diagnose_failure's prompt.
FailureTypes ==
    {"timing", "wrong_element", "ui_change", "loading", "permission", "network",
     "coordinates", "unknown"}

\* diagnose_failure, given the oracle's response: a request that raises or a
\* text that holds no object gives 'unknown', else the object's failure_type
\* is returned as it is ("" stands for null).
diagnose_failure(response) ==
    IF response.kind \in {"error", "garbage"} THEN "unknown"
    ELSE Get(response.data, "failure_type", "unknown")

\* Faulty variant of _apply_failure_recovery: one second whatever the type.
_apply_failure_recovery_flat(failure_type) == 1

\* _apply_failure_recovery: the seconds it sleeps; it does nothing else but
\* narrate.
_apply_failure_recovery(failure_type) ==
    CASE failure_type = "timing" -> 2
      [] failure_type = "wrong_element" -> 0
      [] failure_type = "ui_change" -> 0
      [] failure_type = "loading" -> 3
      [] failure_type = "permission" -> 0
      [] OTHER -> 1

\* What the oracle can answer to a diagnosis request.
DiagnosisResponses ==
    {[kind |-> "error"], [kind |-> "garbage"], [kind |-> "json", data |-> << >>]} \cup
    {[kind |-> "json", data |-> [failure_type |-> t]] :
        t \in FailureTypes \cup {"hardware", ""}}

\* Faulty variant of _handle_successful_action: total_actions is not counted.
_handle_successful_action_uncounted(status) ==
    [status EXCEPT !.successful_actions = @ + 1]

\* _handle_successful_action.
_handle_successful_action(status) ==
    [status EXCEPT !.successful_actions = @ + 1, !.total_actions = @ + 1]

\* _handle_failed_action.
_handle_failed_action(status) ==
    [status EXCEPT !.failed_actions = @ + 1, !.total_actions = @ + 1]

\* Lines 188-193 with the two handlers; _execute_iteration returns and its
\* locals are gone.  A failed result that holds both frames is diagnosed and
\* the recovery sleeps (lines 239-248).
HandleResult(w) ==
    /\ worker[w].pc = "handle"
    /\ LET result == worker[w].result
           iteration == task_status.current_iteration
           frames == Append(context.screenshots_history, iteration)
       IN IF result.success
             THEN /\ task_status' = _handle_successful_action(task_status)
                  /\ context' = [context EXCEPT
                        !.previous_actions = Append(@, iteration),
                        !.screenshots_history =
                            IF ~result.after_screenshot THEN @
                            ELSE IF Len(frames) > MaxFrames THEN Tail(frames)
                            ELSE frames]
                  /\ UNCHANGED failure_history
             ELSE /\ task_status' = _handle_failed_action(task_status)
                  /\ failure_history' = Append(failure_history, [iteration |-> iteration])
                  /\ UNCHANGED context
    /\ LET result == worker[w].result
           diagnosed == /\ ~result.success
                        /\ result.before_screenshot
                        /\ result.after_screenshot
       IN \E failure_type \in IF diagnosed
                                THEN {diagnose_failure(diagnosis) :
                                         diagnosis \in DiagnosisResponses}
                                ELSE {""} :
            worker' =
              [worker EXCEPT ![w] =
                 [@ EXCEPT !.pc = "post", !.success = result.success,
                           !.response = NoResponse, !.action_plan = NoPlan,
                           !.result = NoResult, !.x = 0, !.y = 0, !.attempts = 0,
                           !.recent_actions = <<>>, !.confirmations = <<>>,
                           !.verifications = 0,
                           !.diagnosed = diagnosed,
                           !.failure_type = failure_type,
                           !.slept = IF diagnosed
                                        THEN _apply_failure_recovery(failure_type)
                                        ELSE 0]]
    /\ gestures' = <<>>
    /\ UNCHANGED <<current_task, should_stop, is_paused, status_callbacks,
                   narration_callbacks, completion_callbacks, consecutive_failures,
                   emergency_stop, vision_engine, screenshot_size, caller>>

\* Faulty variant of count_failure: a success leaves the counter as it is.
count_failure_unreset(failures, success) == IF success THEN failures ELSE failures + 1

\* The counter's new value after an iteration that returned success.
count_failure(failures, success) == IF success THEN 0 ELSE failures + 1

\* Lines 131-137, with _handle_max_failures.
PostIteration(w) ==
    /\ worker[w].pc = "post"
    /\ LET failures == count_failure(consecutive_failures, worker[w].success)
       IN /\ consecutive_failures' = failures
          /\ IF ~worker[w].success /\ failures >= max_failures
                THEN /\ task_status' = [task_status EXCEPT
                                           !.error_message = "Max failures reached",
                                           !.is_running = FALSE]
                     /\ worker' = [worker EXCEPT ![w] =
                           [Notify(worker[w], FALSE, "Max failures reached") EXCEPT
                               !.pc = "completion", !.diagnosed = FALSE,
                               !.failure_type = "", !.slept = 0]]
                ELSE /\ worker' = [worker EXCEPT ![w] =
                           [@ EXCEPT !.pc = "update_status", !.diagnosed = FALSE,
                                     !.failure_type = "", !.slept = 0]]
                     /\ UNCHANGED task_status
    /\ UNCHANGED <<current_task, context, should_stop, is_paused, status_callbacks,
                   narration_callbacks, completion_callbacks, failure_history,
                   emergency_stop, vision_engine, screenshot_size, gestures, caller>>

\* Lines 140-143: _update_status, then back to the while condition.
UpdateStatus(w) ==
    /\ worker[w].pc = "update_status"
    /\ worker' = [worker EXCEPT ![w] = [@ EXCEPT !.pc = "loop", !.published = @ + 1]]
    /\ UNCHANGED <<controller_vars, emergency_stop, vision_engine, screenshot_size,
                   gestures, caller>>

\* Faulty variant of HandleTaskCompletion: is_running is left as it is.
HandleTaskCompletionRunning(w) ==
    /\ worker[w].pc = "completion"
    /\ task_status' = [task_status EXCEPT !.is_complete = TRUE]
    /\ worker' = [worker EXCEPT ![w] =
          [(IF task_status.error_message # ""
               THEN Notify(worker[w], FALSE, task_status.error_message)
               ELSE Notify(worker[w], TRUE, "Task completed"))
           EXCEPT !.pc = "done", !.success = FALSE]]
    /\ UNCHANGED <<current_task, context, should_stop, is_paused, status_callbacks,
                   narration_callbacks, completion_callbacks, consecutive_failures,
                   failure_history, emergency_stop, vision_engine, screenshot_size,
                   gestures, caller>>

\* Line 146: _handle_task_completion; the thread ends.
HandleTaskCompletion(w) ==
    /\ worker[w].pc = "completion"
    /\ task_status' = [task_status EXCEPT !.is_running = FALSE, !.is_complete = TRUE]
    /\ worker' = [worker EXCEPT ![w] =
          [(IF task_status.error_message # ""
               THEN Notify(worker[w], FALSE, task_status.error_message)
               ELSE Notify(worker[w], TRUE, "Task completed"))
           EXCEPT !.pc = "done", !.success = FALSE]]
    /\ UNCHANGED <<current_task, context, should_stop, is_paused, status_callbacks,
                   narration_callbacks, completion_callbacks, consecutive_failures,
                   failure_history, emergency_stop, vision_engine, screenshot_size,
                   gestures, caller>>

\* An unforeseen exception raised inside the try block of
\* _execute_iteration: lines 195-198 catch it and the iteration returns
\* False; its locals are gone.
IterationRaises(w) ==
    /\ worker[w].pc \in {"analyze", "execute_action", "dispatch", "confirm", "click",
                          "after", "handle"}
    /\ worker' = [worker EXCEPT ![w] =
          [@ EXCEPT !.pc = "post", !.success = FALSE, !.raised = TRUE,
                    !.response = NoResponse, !.action_plan = NoPlan,
                    !.result = NoResult, !.x = 0, !.y = 0, !.attempts = 0,
                    !.recent_actions = <<>>, !.confirmations = <<>>,
                    !.verifications = 0]]
    /\ gestures' = <<>>
    /\ UNCHANGED <<controller_vars, emergency_stop, vision_engine, screenshot_size, caller>>

\* An unforeseen exception raised in _execute_task_loop outside
\* _execute_iteration: lines 148-150 catch it and call _handle_task_error
\* (297-302); the thread ends.
LoopRaises(w) ==
    /\ worker[w].pc \in {"start", "loop", "pause_check", "emergency_check", "post",
                          "update_status", "completion"}
    /\ task_status' = [task_status EXCEPT !.is_running = FALSE,
                                          !.error_message = "unforeseen error"]
    /\ worker' = [worker EXCEPT ![w] =
          [Notify(worker[w], FALSE, "unforeseen error") EXCEPT
              !.pc = "done", !.success = FALSE, !.raised = TRUE,
              !.diagnosed = FALSE, !.failure_type = "", !.slept = 0]]
    /\ UNCHANGED <<current_task, context, should_stop, is_paused, status_callbacks,
                   narration_callbacks, completion_callbacks, consecutive_failures,
                   failure_history, emergency_stop, vision_engine, screenshot_size,
                   gestures, caller>>

(***************************************************************************)
(* The environment: what the oracle answers, what the device captures      *)
(***************************************************************************)
Json(data) == [kind |-> "json", data |-> data]

TransportError == [kind |-> "error"]

Garbage == [kind |-> "garbage"]

WaitResponse ==
    Json([action_type |-> "wait", target_description |-> {"Wait", "for", "page"},
          confidence |-> Num(5), reasoning |-> "The page is loading"])

DeleteResponse ==
    Json([action_type |-> "type", target_description |-> {"Delete", "file"},
          text |-> "abc", confidence |-> Num(3), reasoning |-> "File is selected"])

RemoveResponse ==
    Json([action_type |-> "type", target_description |-> {"Remove", "item"},
          text |-> "abc", confidence |-> Num(3), reasoning |-> "Item is selected"])

ClickResponse ==
    Json([action_type |-> "click", target_description |-> {"Login", "button"},
          coordinates_pct |-> <<RatioDen \div 2, RatioDen \div 2>>,
          confidence |-> Num(9), reasoning |-> "I can see a login button"])

TypeResponse ==
    Json([action_type |-> "type", target_description |-> {"Enter", "username"},
          confidence |-> Num(7), reasoning |-> "Username field is visible"])

UsernameResponse ==
    Json([action_type |-> "type", target_description |-> {"Enter", "username"},
          text |-> "abc", confidence |-> Num(7), reasoning |-> "Username field is visible"])

OutsideResponse ==
    Json([action_type |-> "double_click", target_description |-> {"Open", "file"},
          coordinates |-> <<Px(3 * ScreenWidth), Px(1)>>,
          confidence |-> Num(6), reasoning |-> "The file icon"])

OracleResponses ==
    {TransportError, Garbage, WaitResponse, DeleteResponse, RemoveResponse,
     ClickResponse, TypeResponse, OutsideResponse}

\* The frames are as large as the screen, or twice as large (a scaled display).
ShotSizes == {Screen, <<2 * ScreenWidth, 2 * ScreenHeight>>}

Empty == [key \in {} |-> 0]

Descriptions ==
    {{"Login", "button"}, {"Delete", "important", "file"}, {"Remove", "item"},
     {"Submit", "form"}}

Coordinates ==
    {<<>>, <<Px(2), Px(1)>>, <<Px(ScreenWidth + 1), Px(1)>>, <<Px(1), 0 - Px(1)>>}

Confidences == 0..(MaxConfidence + 1)

\* The objects the oracle's text can hold, key by key; Empty is an absent key.
JsonObjects ==
    {t @@ d @@ c @@ p @@ n @@ x :
        t \in {Empty} \cup {[action_type |-> a] :
                               a \in {"wait", "click", "double_click", "type", "fly"}},
        d \in {Empty} \cup {[target_description |-> s] : s \in Descriptions},
        c \in {Empty} \cup {[coordinates |-> v] :
                               v \in Coordinates \cup {<<Px(1), Px(1)>>, <<Px(1), Px(1), Px(1)>>}},
        p \in {Empty} \cup {[coordinates_pct |-> v] :
                               v \in {<<RatioDen \div 2, RatioDen \div 4>>, <<0, Px(1)>>,
                                      <<1, 2, 3>>}},
        n \in {Empty} \cup {[confidence |-> v] :
                               v \in {Num(k) : k \in {0, 1, 7, 8, 10, 11}} \cup {[str |-> "high"]}},
        x \in {Empty, [text |-> "abc"]}}

UnitResponses == {TransportError, Garbage} \cup {Json(data) : data \in JsonObjects}

AllTypes == valid_types \cup {"fly"}

\* The plans a caller can hand to _validate_action_plan or execute_action.
DirectPlans ==
    {ActionPlan(t, d, c, x, Num(k)) :
        t \in AllTypes, d \in Descriptions, c \in Coordinates, x \in {"", "abc"},
        k \in Confidences}

(***************************************************************************)
(* Direct calls, as the tests of tests/test_vision_engine.py make them      *)
(***************************************************************************)
ValidateCall(w) ==
    /\ worker[w].pc = "validate"
    /\ worker' = [worker EXCEPT ![w] =
          [@ EXCEPT !.pc = "validated",
                    !.valid = _validate_action_plan(worker[w].action_plan)]]
    /\ UNCHANGED <<controller_vars, emergency_stop, vision_engine, screenshot_size,
                   gestures, caller>>

\* _map_coordinates called on the point (x, y) of a screenshot of
\* screenshot_size.
MapCall(w) ==
    /\ worker[w].pc = "map"
    /\ worker' = [worker EXCEPT ![w] =
          [@ EXCEPT !.pc = "mapped",
                    !.mapped = _map_coordinates(<<worker[w].x, worker[w].y>>,
                                                screenshot_size, Screen)]]
    /\ UNCHANGED <<controller_vars, emergency_stop, vision_engine, screenshot_size,
                   gestures, caller>>

\* diagnose_failure called on two frames and a plan, as the tests
\* test_diagnose_failure and test_diagnose_failure_error call it.
DiagnoseCall(w) ==
    /\ worker[w].pc = "diagnose"
    /\ \E response \in DiagnosisResponses :
         worker' = [worker EXCEPT ![w] =
            [@ EXCEPT !.pc = "diagnosed",
                      !.response = response,
                      !.diagnosed = TRUE,
                      !.failure_type = diagnose_failure(response)]]
    /\ UNCHANGED <<controller_vars, emergency_stop, vision_engine, screenshot_size,
                   gestures, caller>>

\* The integer pixel positions of the largest screenshot.
Pixels ==
    {<<Px(i), Px(j)>> : i \in 0..(2 * ScreenWidth), j \in 0..(2 * ScreenHeight)}

(***************************************************************************)
(* Specifications                                                          *)
(***************************************************************************)
MaxCallers == 2

Callers == 1..MaxCallers

\* The controller and the callers before any call, but for the context.
InitIdle ==
    /\ current_task = 0
    /\ task_status = TaskStatus(FALSE)
    /\ should_stop = FALSE
    /\ is_paused = FALSE
    /\ status_callbacks = <<>>
    /\ narration_callbacks = <<>>
    /\ completion_callbacks = <<>>
    /\ consecutive_failures = 0
    /\ failure_history = <<>>
    /\ gestures = <<>>
    /\ caller = [c \in Callers |->
                    [pc |-> "idle", task |-> 0, ret |-> "none"]]

InitController ==
    /\ InitIdle
    /\ context = NoContext

Init ==
    /\ InitController
    /\ emergency_stop = FALSE
    /\ vision_engine \in BOOLEAN
    /\ screenshot_size = <<2 * ScreenWidth, 2 * ScreenHeight>>
    /\ worker = [w \in Workers |-> WorkerLocals]

\* The steps of a worker thread, given what the oracle may answer and
\* whether a frame capture may fail.
WorkerStep(w, responses, captures) ==
    \/ LoopStart(w)
    \/ LoopCheck(w)
    \/ PauseCheck(w)
    \/ EmergencyCheck(w)
    \/ BeginIteration(w, captures)
    \/ Analyze(w, responses)
    \/ ExecuteAction(w)
    \/ ExecuteHandler(w)
    \/ ExecuteClickBegin(w)
    \/ ConfirmClick(w)
    \/ Click(w)
    \/ AfterAction(w)
    \/ HandleResult(w)
    \/ PostIteration(w)
    \/ UpdateStatus(w)
    \/ HandleTaskCompletion(w)

\* A client that calls execute_task from one thread, and starts a task
\* only when no worker of an earlier run is still alive.
SequentialCall(c) ==
    /\ task_status.is_running \/ \A w \in Workers : ~Alive(w)
    /\ CallExecuteTask(c)

Next ==
    \/ SequentialCall(1)
    \/ StartTask(1)
    \/ stop_task
    \/ pause_task
    \/ resume_task
    \/ activate_emergency_stop
    \/ reset_emergency_stop
    \/ \E w \in Workers : WorkerStep(w, OracleResponses, BOOLEAN)

Spec == Init /\ [][Next]_vars

\* Direct calls on an idle engine: analyze_screenshot and diagnose_failure on
\* any oracle answer, _map_coordinates on any pixel, _validate_action_plan and execute_action on
\* any plan a caller can build.
UnitCalls ==
    {[WorkerLocals EXCEPT !.pc = "analyze"], [WorkerLocals EXCEPT !.pc = "diagnose"]} \cup
    {[WorkerLocals EXCEPT !.pc = "map", !.x = pixel[1], !.y = pixel[2]] :
        pixel \in Pixels} \cup
    {[WorkerLocals EXCEPT !.pc = entry, !.action_plan = action_plan] :
        entry \in {"validate", "execute_action"}, action_plan \in DirectPlans}

InitUnit ==
    /\ InitIdle
    /\ context = VisionContext(0)
    /\ emergency_stop \in BOOLEAN
    /\ vision_engine \in BOOLEAN
    /\ screenshot_size \in ShotSizes
    /\ worker \in {[w \in Workers |-> IF w = 1 THEN locals ELSE WorkerLocals] :
                      locals \in UnitCalls}

NextUnit ==
    \/ ValidateCall(1)
    \/ MapCall(1)
    \/ DiagnoseCall(1)
    \/ Analyze(1, UnitResponses)
    \/ ExecuteAction(1)
    \/ ExecuteHandler(1)
    \/ ExecuteClickBegin(1)
    \/ ConfirmClick(1)
    \/ Click(1)
    \/ AfterAction(1)

SpecUnit == InitUnit /\ [][NextUnit]_vars

\* The steps a worker takes when every plan is a wait: the click handler is
\* never entered.
WaitingStep(w) ==
    \/ LoopStart(w)
    \/ LoopCheck(w)
    \/ PauseCheck(w)
    \/ EmergencyCheck(w)
    \/ BeginIteration(w, {TRUE})
    \/ Analyze(w, {WaitResponse})
    \/ ExecuteAction(w)
    \/ ExecuteHandler(w)
    \/ AfterAction(w)
    \/ HandleResult(w)
    \/ PostIteration(w)
    \/ UpdateStatus(w)
    \/ HandleTaskCompletion(w)

\* Runs in which every frame is captured, the oracle always answers with the
\* wait action of confidence 5, and nobody asks for a stop, a pause or an
\* emergency stop.
InitScenario ==
    /\ InitController
    /\ emergency_stop = FALSE
    /\ vision_engine \in BOOLEAN
    /\ screenshot_size \in ShotSizes
    /\ worker = [w \in Workers |-> WorkerLocals]

NextScenario ==
    \/ SequentialCall(1)
    \/ StartTask(1)
    \/ \E w \in Workers : WaitingStep(w)

SpecScenario == InitScenario /\ [][NextScenario]_vars

\* Several threads call execute_task on the same controller: each runs the
\* test of line 69 and lines 73-97 as separate steps, with no lock.
NextConc ==
    \/ \E c \in Callers : CallExecuteTask(c)
    \/ \E c \in Callers : StartTask(c)
    \/ \E w \in Workers : WaitingStep(w)

SpecConc == InitScenario /\ [][NextConc]_vars

\* activate_emergency_stop called in the middle of an iteration, before the
\* iteration's actuation call has tested the flag.
EmergencyStopMidIteration ==
    /\ \E w \in Workers : worker[w].pc \in {"analyze", "execute_action"}
    /\ activate_emergency_stop

\* Runs of waits in which the only request is an emergency stop made in the
\* middle of an iteration; the flag is never reset.
NextEmergency ==
    \/ SequentialCall(1)
    \/ StartTask(1)
    \/ EmergencyStopMidIteration
    \/ \E w \in Workers : WaitingStep(w)

SpecEmergency == InitScenario /\ [][NextEmergency]_vars

\* Runs of waits in which unforeseen exceptions are raised, inside an
\* iteration or in the loop around it.
NextError ==
    \/ SequentialCall(1)
    \/ StartTask(1)
    \/ \E w \in Workers : WaitingStep(w)
    \/ \E w \in Workers : IterationRaises(w)
    \/ \E w \in Workers : LoopRaises(w)

SpecError == InitScenario /\ [][NextError]_vars

\* The steps of a worker when the oracle answers a wait or a typing action,
\* which the verifier, if attached, may deny.
RecoveryStep(w) ==
    \/ LoopStart(w)
    \/ LoopCheck(w)
    \/ PauseCheck(w)
    \/ EmergencyCheck(w)
    \/ BeginIteration(w, {TRUE})
    \/ Analyze(w, {WaitResponse, UsernameResponse})
    \/ ExecuteAction(w)
    \/ ExecuteHandler(w)
    \/ AfterAction(w)
    \/ HandleResult(w)
    \/ PostIteration(w)
    \/ UpdateStatus(w)
    \/ HandleTaskCompletion(w)

NextRecovery ==
    \/ SequentialCall(1)
    \/ StartTask(1)
    \/ \E w \in Workers : RecoveryStep(w)

SpecRecovery == InitScenario /\ [][NextRecovery]_vars

\* A client that starts the next task as soon as is_running is false, for
\* instance from its completion observer; the oracle answers waits and a
\* frame capture may fail.
NextRestart ==
    \/ CallExecuteTask(1)
    \/ StartTask(1)
    \/ \E w \in Workers : WaitingStep(w)
    \/ \E w \in Workers : BeginIteration(w, {FALSE})

SpecRestart == InitScenario /\ [][NextRestart]_vars

\* Screenshots with a zero dimension, on which the mapper's division fails.
ZeroShots == {<<0, ScreenHeight>>, <<ScreenWidth, 0>>}

\* Direct calls of _map_coordinates and analyze_screenshot with a screenshot
\* of any size, a zero dimension included.
InitMapping ==
    /\ InitIdle
    /\ context = VisionContext(0)
    /\ emergency_stop = FALSE
    /\ vision_engine = TRUE
    /\ screenshot_size \in ShotSizes \cup ZeroShots
    /\ worker \in {[w \in Workers |-> IF w = 1 THEN locals ELSE WorkerLocals] :
                      locals \in {call \in UnitCalls : call.pc \in {"map", "analyze"}}}

NextMapping ==
    \/ MapCall(1)
    \/ Analyze(1, UnitResponses)

SpecMapping == InitMapping /\ [][NextMapping]_vars

\* Runs of waits during which the client may pause and resume the task and
\* activate the emergency stop, which is never reset.  The worker thread is
\* scheduled fairly: a step it can take is eventually taken.
NextHalt ==
    \/ SequentialCall(1)
    \/ StartTask(1)
    \/ pause_task
    \/ resume_task
    \/ activate_emergency_stop
    \/ \E w \in Workers : WaitingStep(w)

SpecHalt ==
    /\ InitScenario
    /\ [][NextHalt]_vars
    /\ WF_vars(\E w \in Workers : WaitingStep(w))

\* activate_emergency_stop called while no worker is alive.
ActivateWhileIdle ==
    /\ \A w \in Workers : ~Alive(w)
    /\ activate_emergency_stop

\* Runs of waits by a client that activates the emergency stop only between
\* runs and may reset it at any time; nobody asks for a stop or a pause.
NextLatched ==
    \/ SequentialCall(1)
    \/ StartTask(1)
    \/ ActivateWhileIdle
    \/ reset_emergency_stop
    \/ \E w \in Workers : WaitingStep(w)

SpecLatched == InitScenario /\ [][NextLatched]_vars

\* Runs of waits, in which a frame capture may fail, under every request of
\* the client: stop, pause, resume, emergency stop and its reset.  Each call
\* the worker makes returns, so a step the worker can take is eventually
\* taken.
NextLive ==
    \/ SequentialCall(1)
    \/ StartTask(1)
    \/ stop_task
    \/ pause_task
    \/ resume_task
    \/ activate_emergency_stop
    \/ reset_emergency_stop
    \/ \E w \in Workers : WaitingStep(w)
    \/ \E w \in Workers : BeginIteration(w, {FALSE})

SpecLive ==
    /\ InitScenario
    /\ [][NextLive]_vars
    /\ WF_vars(\E w \in Workers : WaitingStep(w) \/ BeginIteration(w, {FALSE}))

\* The longest run considered for the histories: more iterations than the
\* frame history holds frames.
LongRun == 13

\* The steps of a worker of a controller configured with
\* max_iterations = LongRun, every frame captured, the oracle answering a
\* wait or a type action without text (which fails in its handler).
HistoryStep(w) ==
    \/ LoopStart(w)
    \/ LoopCheckConfigured(w, LongRun)
    \/ PauseCheck(w)
    \/ EmergencyCheck(w)
    \/ BeginIteration(w, {TRUE})
    \/ Analyze(w, {WaitResponse, TypeResponse})
    \/ ExecuteAction(w)
    \/ ExecuteHandler(w)
    \/ AfterAction(w)
    \/ HandleResult(w)
    \/ PostIteration(w)
    \/ UpdateStatus(w)
    \/ HandleTaskCompletion(w)

\* One long run.
NextHistory ==
    \/ Runs = 0 /\ SequentialCall(1)
    \/ StartTask(1)
    \/ \E w \in Workers : HistoryStep(w)

SpecHistory == InitScenario /\ [][NextHistory]_vars

(***************************************************************************)
(* Properties                                                              *)
(***************************************************************************)

\* C1: a call of execute_task made while a task is running returns False and
\* changes nothing: the current task, the TaskStatus, the failure counter and
\* history, the stop and pause flags and the three observer lists keep their
\* values, no worker is started, and the call leaves nothing pending.
C1RejectedCallChangesNothing ==
    [][\A c \in Callers :
          (task_status.is_running /\ caller[c].pc = "idle" /\ caller'[c] # caller[c])
             => /\ caller'[c].ret = "False"
                /\ caller'[c].pc = "idle"
                /\ UNCHANGED <<current_task, task_status, consecutive_failures,
                               failure_history, should_stop, is_paused,
                               status_callbacks, narration_callbacks,
                               completion_callbacks>>
                /\ UNCHANGED worker]_vars

\* A call was refused in the middle of a run.
C1Witness ==
    \E c \in Callers :
        /\ caller[c].ret = "False"
        /\ task_status.is_running
        /\ task_status.current_iteration > 0

\* C2: however two or more concurrent execute_task calls interleave, at most
\* one of them is accepted and at most one worker loop is started: no two
\* worker loops are ever alive together.  (In these runs a worker is alive
\* exactly while is_running holds, so calls made one after the other never
\* start a second worker beside a live one.)
C2AtMostOneWorker ==
    Cardinality({w \in Workers : Alive(w)}) <= 1

\* C3: when the oracle always answers with the wait action of confidence 5
\* and no stop, pause or emergency stop is requested, a run makes exactly
\* max_iterations iterations, all of them successful, none failed, and ends
\* complete, not running, with success reported to the completion observers.
C3WaitRunCompletes ==
    /\ task_status.current_iteration <= max_iterations
    /\ task_status.failed_actions = 0
    /\ \A w \in Workers :
          (w = Runs /\ worker[w].pc = "done")
             => /\ task_status.current_iteration = max_iterations
                /\ task_status.successful_actions = max_iterations
                /\ task_status.total_actions = max_iterations
                /\ task_status.is_complete
                /\ ~task_status.is_running
                /\ worker[w].notified = <<[success |-> TRUE, message |-> "Task completed"]>>

\* A run of waits has ended.
C3Witness ==
    \E w \in Workers :
        /\ w = Runs
        /\ worker[w].pc = "done"
        /\ task_status.successful_actions = max_iterations

\* C4: each successful iteration resets the consecutive-failure counter to 0
\* and each failed one adds exactly 1; the run is ended for max-failures on
\* the step that brings the counter to max_failures, never below it, and no
\* iteration starts once the counter has reached max_failures.
C4FailureCounter ==
    /\ [](/\ consecutive_failures <= max_failures
          /\ task_status.error_message = "Max failures reached"
                => consecutive_failures = max_failures
          /\ \A w \in Workers :
                worker[w].pc \in {"loop", "pause_check", "emergency_check", "iteration"}
                   => consecutive_failures < max_failures)
    /\ [][\A w \in Workers :
             (worker[w].pc = "post" /\ worker'[w].pc # "post")
                => /\ consecutive_failures' =
                          IF worker[w].success THEN 0 ELSE consecutive_failures + 1
                   /\ (consecutive_failures' = max_failures)
                         <=> /\ worker'[w].pc = "completion"
                             /\ task_status'.error_message = "Max failures reached"
                             /\ ~task_status'.is_running]_vars

\* A run was ended for max-failures after at least one success.
C4Witness ==
    /\ task_status.error_message = "Max failures reached"
    /\ consecutive_failures = max_failures
    /\ task_status.successful_actions > 0

\* C5: analyze_screenshot never raises.  On a transport error, on text with
\* no parseable object and on a parsed plan that fails validation it returns
\* the fallback plan (wait, confidence 1, reasoning marked as a fallback);
\* on every other answer it returns the one plan built from that answer.
C5AnalyzeFallsBack ==
    \A w \in Workers :
        (worker[w].pc = "execute_action" /\ worker[w].response # NoResponse) =>
           LET response == worker[w].response
               action_plan == worker[w].action_plan
               parsed == _parse_action_response(response)
               failed == \/ response.kind \in {"error", "garbage"}
                         \/ ValidateRaises(parsed)
                         \/ ~_validate_action_plan(parsed)
           IN IF failed
                 THEN /\ action_plan.action_type = "wait"
                      /\ action_plan.confidence = Num(1)
                      /\ action_plan.reasoning = FallbackReasoning
                 ELSE /\ action_plan.action_type = Get(response.data, "action_type", "wait")
                      /\ action_plan.target_description =
                            Get(response.data, "target_description", {"Unknown", "target"})
                      /\ action_plan.confidence = Get(response.data, "confidence", Num(5))
                      /\ action_plan.text = Get(response.data, "text", "")
                      /\ action_plan.reasoning # FallbackReasoning

\* The oracle proposed a click that validation refused, and the fallback
\* plan came back.
C5Witness ==
    \E w \in Workers :
        /\ worker[w].pc = "execute_action"
        /\ worker[w].response.kind = "json"
        /\ Get(worker[w].response.data, "action_type", "") = "click"
        /\ worker[w].action_plan = _create_fallback_action

C7DestructiveRejectedIffBelowEight ==
    \A w \in Workers :
        worker[w].pc = "validated" =>
           LET action_plan == worker[w].action_plan
           IN (/\ action_plan.action_type \in valid_types
               /\ \E keyword \in destructive_actions :
                     Contains(keyword, action_plan.target_description)
               /\ action_plan.confidence.num \in 1..10)
                 => (worker[w].valid <=> action_plan.confidence.num >= 8)

\* C8: the Safety Gate denies a plan exactly when (a) its action type is not
\* in the allow-set, or (b) its target description contains a destructive
\* keyword and its confidence is below 8, or (c) it has a coordinate outside
\* [0, screen_width] x [0, screen_height]; the denial is a failed
\* ExecutionResult returned to the caller, and no gesture is issued.
C8GateDeniesExactly ==
    \A w \in Workers :
        (/\ worker[w].pc \in {"dispatch", "confirm", "click", "after", "handle"}
         /\ worker[w].action_plan # NoPlan) =>
           LET action_plan == worker[w].action_plan
               result == worker[w].result
               denied == result.error_message = "Action blocked by safety controls"
               a == action_plan.action_type \notin allowed_actions
               b == /\ \E keyword \in destructive_keywords :
                          Contains(keyword, action_plan.target_description)
                    /\ action_plan.confidence.num < 8
               c == /\ action_plan.coordinates # <<>>
                    /\ \/ action_plan.coordinates[1] < 0
                       \/ action_plan.coordinates[1] > Px(ScreenWidth)
                       \/ action_plan.coordinates[2] < 0
                       \/ action_plan.coordinates[2] > Px(ScreenHeight)
           IN /\ result.error_message # "Emergency stop activated"
                    => (denied <=> (a \/ b \/ c))
              /\ denied => /\ ~result.success
                           /\ worker[w].pc = "handle"
                           /\ gestures = <<>>

\* A confident click outside the screen was denied.
C8Witness ==
    \E w \in Workers :
        /\ worker[w].pc = "handle"
        /\ worker[w].result.error_message = "Action blocked by safety controls"
        /\ worker[w].action_plan.action_type = "click"
        /\ worker[w].action_plan.confidence = Num(10)
        /\ worker[w].action_plan.coordinates # <<>>
        /\ gestures = <<>>

\* C9: when the oracle proposes an action whose target description contains
\* a destructive keyword with confidence 3, execute_action returns a failed
\* result for that iteration (which _execute_iteration records and counts as
\* a failure) and no gesture is issued.
C9DestructiveProposalFails ==
    \A w \in Workers :
        (/\ worker[w].pc = "handle"
         /\ worker[w].response.kind = "json"
         /\ \E keyword \in destructive_keywords :
               Contains(keyword, worker[w].response.data.target_description)
         /\ worker[w].response.data.confidence = Num(3))
            => /\ ~worker[w].result.success
               /\ gestures = <<>>

\* C10: when the oracle's text holds no parseable object, the fallback plan
\* (wait, confidence 1) is produced and handed to execute_action, the
\* iteration has been counted in current_iteration, and total_actions grows
\* by one for it.
C10GarbageCountsAsAttempt ==
    /\ [](\A w \in Workers :
             worker[w].response = Garbage
                => /\ worker[w].pc \in {"execute_action", "dispatch", "after", "handle"}
                   /\ worker[w].action_plan.action_type = "wait"
                   /\ worker[w].action_plan.confidence = Num(1)
                   /\ context.iteration_count = task_status.current_iteration
                   /\ task_status.total_actions < task_status.current_iteration)
    /\ [][\A w \in Workers :
             (worker[w].pc = "iteration" /\ worker'[w].pc # "iteration")
                => task_status'.current_iteration = task_status.current_iteration + 1]_vars
    /\ [][\A w \in Workers :
             (worker[w].response = Garbage /\ worker'[w].response # Garbage)
                => /\ worker[w].pc = "handle"
                   /\ task_status'.total_actions = task_status.total_actions + 1
                   /\ task_status'.current_iteration = task_status.current_iteration]_vars

\* The fallback wait produced from unparseable text has been carried out.
C10Witness ==
    \E w \in Workers :
        /\ worker[w].response = Garbage
        /\ worker[w].pc = "handle"
        /\ worker[w].result.success

\* C11: whenever the emergency-stop flag is set while a task is running, the
\* run ends not running and with an error message that names the emergency
\* stop.
C11EmergencyStopEndsRun ==
    \A w \in Workers :
        (w = Runs /\ worker[w].pc = "done" /\ emergency_stop)
           => /\ ~task_status.is_running
              /\ task_status.error_message = "Emergency stop activated"

\* C12: once the emergency-stop flag is set and stays set, no further device
\* gesture is issued; in particular none of the pointer moves and not the
\* final click of a click negotiation that is under way.
C12NoGestureAfterEmergencyStop ==
    [][(/\ emergency_stop
        /\ emergency_stop'
        /\ \E w \in Workers : worker[w].pc \in {"confirm", "click"})
          => Len(gestures') <= Len(gestures)]_vars

C14NegotiationBounded ==
    \A w \in Workers :
        LET calls == worker[w].confirmations
            refused == \A i \in 1..Len(calls) :
                          ~calls[i].confirm /\ calls[i].suggested_coordinates # <<>>
            clicked == \E i \in 1..Len(gestures) : gestures[i].kind = "click"
        IN /\ Len(calls) <= max_click_retries
           /\ Len(calls) <= max_click_retries + 1
           /\ worker[w].pc = "confirm"
                 => refused /\ Len(calls) = worker[w].attempts
                            /\ Len(calls) < max_click_retries
           /\ (worker[w].pc \in {"after", "handle"} /\ calls # <<>> /\ refused)
                 => /\ ~clicked
                    /\ ~worker[w].result.success
                    /\ IF worker[w].result.error_message =
                             "Max confirmation attempts reached without approval"
                          THEN Len(calls) = max_click_retries
                          ELSE worker[w].result.error_message = "Click execution failed"
           /\ (/\ worker[w].pc \in {"after", "handle"}
               /\ worker[w].result.error_message =
                     "Max confirmation attempts reached without approval")
                 => refused /\ Len(calls) = max_click_retries

\* A negotiation has aborted after max_click_retries refusals, each with
\* another point the pointer was moved to.
C14Witness ==
    \E w \in Workers :
        /\ worker[w].pc = "handle"
        /\ worker[w].result.error_message =
              "Max confirmation attempts reached without approval"
        /\ Len(worker[w].confirmations) = max_click_retries
        /\ Len(gestures) = max_click_retries + 1

\* C15: with an oracle attached, a click action clicks at most once, only
\* when the last confirmation answer was confirm = true, and at the point
\* shown to the oracle in that call; after a refusal without another point
\* (which is also what a failed confirmation call returns) or an exhausted
\* budget the action has failed without a click.
C15ClickOnlyAsConfirmed ==
    \A w \in Workers :
        (/\ worker[w].pc \in {"click", "after", "handle"}
         /\ vision_engine
         /\ worker[w].action_plan.action_type = "click")
           => LET calls == worker[w].confirmations
                  last == calls[Len(calls)]
                  clicks == {i \in 1..Len(gestures) : gestures[i].kind = "click"}
              IN /\ Cardinality(clicks) <= 1
                 /\ \A i \in clicks :
                       /\ calls # <<>>
                       /\ last.confirm
                       /\ gestures[i].at = last.at
                 /\ worker[w].pc = "click" => calls # <<>> /\ last.confirm
                 /\ (worker[w].pc \in {"after", "handle"} /\ worker[w].result.success)
                       => clicks # {}
                 /\ (/\ worker[w].pc \in {"after", "handle"}
                     /\ calls # <<>>
                     /\ ~last.confirm)
                       => /\ clicks = {}
                          /\ ~worker[w].result.success
                          /\ last.suggested_coordinates = <<>>
                                => worker[w].result.error_message =
                                      "Click not confirmed by AI"
                          /\ last.suggested_coordinates # <<>>
                                => worker[w].result.error_message \in
                                      {"Max confirmation attempts reached without approval",
                                       "Click execution failed"}

\* A click was committed after the oracle refused the proposed point, named
\* another one and confirmed that one.
C15Witness ==
    \E w \in Workers :
        /\ worker[w].pc = "handle"
        /\ vision_engine
        /\ worker[w].action_plan.action_type = "click"
        /\ Len(worker[w].confirmations) >= 2
        /\ \E i \in 1..Len(gestures) :
              /\ gestures[i].kind = "click"
              /\ gestures[i].at # worker[w].action_plan.coordinates

\* C16: with an oracle attached, no click-family gesture (click, double
\* click, right click) of a click-family action is committed without a
\* confirm = true answer of the oracle for that action.
C16ClickFamilyNegotiated ==
    \A w \in Workers :
        (/\ worker[w].pc \in {"after", "handle"}
         /\ vision_engine
         /\ worker[w].action_plan.action_type \in
               {"click", "double_click", "right_click"})
           => \A i \in 1..Len(gestures) :
                 gestures[i].kind \in {"click", "doubleClick", "rightClick"}
                    => /\ worker[w].confirmations # <<>>
                       /\ worker[w].confirmations[Len(worker[w].confirmations)].confirm

\* C17: with no oracle attached no confirmation call and no verification
\* call is made, and an admitted click with coordinates in the screen is
\* committed at the plan's coordinates (unless a device call raises).
C17DirectExecution ==
    \A w \in Workers :
        (~vision_engine /\ worker[w].pc \in {"dispatch", "confirm", "click", "after", "handle"})
           => /\ worker[w].confirmations = <<>>
              /\ worker[w].verifications = 0
              /\ worker[w].pc # "confirm"
              /\ (/\ worker[w].pc = "handle"
                  /\ worker[w].action_plan.action_type = "click"
                  /\ worker[w].action_plan.coordinates # <<>>
                  /\ execute_action_denial(worker[w].action_plan, emergency_stop, Screen) = "")
                    => \/ /\ worker[w].result.success
                          /\ ~worker[w].result.action_verified
                          /\ gestures =
                               <<Gesture("moveTo", worker[w].action_plan.coordinates),
                                 Gesture("click", worker[w].action_plan.coordinates)>>
                       \/ /\ ~worker[w].result.success
                          /\ worker[w].result.error_message = "Click execution failed"
                          /\ \A i \in 1..Len(gestures) : gestures[i].kind # "click"

\* A click has been committed with no oracle attached.
C17Witness ==
    \E w \in Workers :
        /\ ~vision_engine
        /\ worker[w].pc = "handle"
        /\ worker[w].action_plan.action_type = "click"
        /\ worker[w].result.success
        /\ Len(gestures) = 2

\* C18: with a verifier attached, for every action type, a result returned
\* by execute_action has success = true only if action_verified = true.
C18SuccessOnlyIfVerified ==
    \A w \in Workers :
        (worker[w].pc = "handle" /\ vision_engine /\ worker[w].result.success)
           => worker[w].result.action_verified

\* C19: in every state of a run longer than the caps, the frame history
\* holds at most MaxFrames (10) frames, which are the frames of the most
\* recent successful actions in order (the oldest is gone once an eleventh
\* was added), and the action history put in the oracle's prompt is the
\* RecentActions (5) most recent successful actions, or all of them when
\* there are fewer, in their original order.
C19HistoriesCapped ==
    /\ context # NoContext
          => LET p == context.previous_actions
                 h == context.screenshots_history
             IN /\ Len(h) <= MaxFrames
                /\ Len(h) = IF Len(p) <= MaxFrames THEN Len(p) ELSE MaxFrames
                /\ h = SubSeq(p, Len(p) - Len(h) + 1, Len(p))
                /\ \A i \in 1..(Len(p) - 1) : p[i] < p[i + 1]
    /\ \A w \in Workers :
          worker[w].pc \in {"execute_action", "dispatch", "after", "handle"}
             => LET p == context.previous_actions
                    r == worker[w].recent_actions
                IN /\ Len(r) <= RecentActions
                   /\ Len(r) = IF Len(p) <= RecentActions THEN Len(p) ELSE RecentActions
                   /\ r = SubSeq(p, Len(p) - Len(r) + 1, Len(p))

\* More than MaxFrames actions have succeeded: a frame was evicted, and the
\* oracle was given five of the earlier actions.
C19Witness ==
    \E w \in Workers :
        /\ worker[w].pc = "handle"
        /\ Len(context.previous_actions) > MaxFrames
        /\ Len(context.screenshots_history) = MaxFrames
        /\ Head(context.screenshots_history) # Head(context.previous_actions)
        /\ Len(worker[w].recent_actions) = RecentActions
        /\ task_status.failed_actions > 0

\* C20: for integer screenshot-pixel input, _map_coordinates returns the
\* input unchanged when the screen is as large as the screenshot, and
\* otherwise (x * screen_width / screenshot_width,
\* y * screen_height / screenshot_height) truncated to integers.
C20MapIdentityOrScaled ==
    \A w \in Workers :
        worker[w].pc = "mapped"
           => IF screenshot_size = Screen
                 THEN worker[w].mapped = <<worker[w].x, worker[w].y>>
                 ELSE worker[w].mapped =
                        <<Px(Trunc(worker[w].x * Screen[1], screenshot_size[1] * RatioDen)),
                          Px(Trunc(worker[w].y * Screen[2], screenshot_size[2] * RatioDen))>>

\* C21: a plan returned by analyze_screenshot whose coordinates came from the
\* oracle's pixel coordinates holds those pixels scaled once to the screen
\* (never converted as ratios), and one whose coordinates came from ratios in
\* [0,1] holds the ratios taken over the screenshot and scaled to the screen.
C21RatiosAndPixelsKeptApart ==
    \A w \in Workers :
        (/\ worker[w].pc = "execute_action"
         /\ worker[w].response.kind = "json"
         /\ worker[w].action_plan.coordinates # <<>>)
           => LET data == worker[w].response.data
                  pct == Get(data, "coordinates_pct", <<>>)
                  abs == Get(data, "coordinates", <<>>)
                  mapped == worker[w].action_plan.coordinates
              IN IF Len(pct) = 2
                    THEN (\A i \in 1..2 : 0 <= pct[i] /\ pct[i] <= Px(1))
                            => mapped = <<Px(Trunc(pct[1] * Screen[1], RatioDen)),
                                          Px(Trunc(pct[2] * Screen[2], RatioDen))>>
                    ELSE mapped =
                           <<Px(Trunc(abs[1] * Screen[1], screenshot_size[1] * RatioDen)),
                             Px(Trunc(abs[2] * Screen[2], screenshot_size[2] * RatioDen))>>

\* C22: an action whose target description matches a confirmation keyword is
\* not actuated without external approval (which nothing in the program can
\* give): execute_action returns a failed result and no gesture is issued.
C22UnapprovedNotActuated ==
    \A w \in Workers :
        (/\ worker[w].pc = "handle"
         /\ _requires_confirmation(worker[w].action_plan))
           => /\ ~worker[w].result.success
              /\ gestures = <<>>

\* C23: every failed iteration (one that will increment the
\* consecutive-failure counter) has appended one FailureRecord of its own to
\* the failure history and has run the Diagnoser and the Recovery Policy.
C23FailureRecordedAndDiagnosed ==
    \A w \in Workers :
        (w = Runs /\ worker[w].pc = "post" /\ ~worker[w].success)
           => /\ failure_history # <<>>
              /\ failure_history[Len(failure_history)].iteration =
                    task_status.current_iteration
              /\ worker[w].diagnosed

\* C24: when a run has ended, TaskStatus has been published once for every
\* iteration that was executed, the last one included.
C24PublishedAfterEveryIteration ==
    \A w \in Workers :
        (w = Runs /\ worker[w].pc \in {"loop", "completion", "done"})
           => worker[w].published = task_status.current_iteration

\* C27: diagnose_failure returns a member of the taxonomy.
C27DiagnosisInTaxonomy ==
    \A w \in Workers :
        worker[w].pc = "diagnosed" => worker[w].failure_type \in FailureTypes

\* C25: a run during which the emergency stop was activated ends not running
\* and every completion notice it delivers reports a failure whose message
\* names the emergency stop: it is not reported as a successful completion
\* or as another cause.
C25TerminationNamesItsCause ==
    \A w \in Workers :
        (w = Runs /\ worker[w].pc = "done" /\ emergency_stop)
           => /\ ~task_status.is_running
              /\ worker[w].notified # <<>>
              /\ \A i \in 1..Len(worker[w].notified) :
                    /\ ~worker[w].notified[i].success
                    /\ worker[w].notified[i].message \in
                          {"Emergency stop", "Emergency stop activated"}

\* C26: is_complete is true at the end of a run only if max_iterations was
\* exhausted without a fatal failure: not for a run that stop_task, the
\* emergency stop or max_failures ended before that.
C26CompleteOnlyWhenExhausted ==
    \A w \in Workers :
        (w = Runs /\ worker[w].pc = "done" /\ task_status.is_complete)
           => /\ task_status.error_message = ""
              /\ task_status.current_iteration = max_iterations

\* C28: a run in which an unforeseen exception was raised inside the task
\* loop ends with is_running = false, the error as the message, and a failure
\* completion notice that carries it.
C28ExceptionEndsRunWithError ==
    \A w \in Workers :
        (w = Runs /\ worker[w].pc = "done" /\ worker[w].raised)
           => /\ ~task_status.is_running
              /\ task_status.error_message = "unforeseen error"
              /\ worker[w].notified # <<>>
              /\ worker[w].notified[Len(worker[w].notified)] =
                    [success |-> FALSE, message |-> "unforeseen error"]

\* C29: the handling of a failed action, with the Recovery Policy it may
\* run, issues no gesture and changes nothing of the controller but what
\* _handle_failed_action records (failed_actions and total_actions each grow
\* by one, one FailureRecord is appended); the recovery's only effect is a
\* wait fixed by the failure type: 2 s for timing, 3 s for loading, none for
\* wrong_element, ui_change and permission, 1 s for any other type.
C29RecoveryOnlyWaits ==
    [][\A w \in Workers :
          (/\ worker[w].pc = "handle"
           /\ worker'[w].pc = "post"
           /\ ~worker[w].result.success)
             => /\ task_status' = [task_status EXCEPT !.failed_actions = @ + 1,
                                                      !.total_actions = @ + 1]
                /\ failure_history' =
                      Append(failure_history, [iteration |-> task_status.current_iteration])
                /\ UNCHANGED <<current_task, context, should_stop, is_paused,
                               status_callbacks, narration_callbacks,
                               completion_callbacks, consecutive_failures,
                               emergency_stop, vision_engine, screenshot_size>>
                /\ Len(gestures') <= Len(gestures)
                /\ worker'[w].notified = worker[w].notified
                /\ worker'[w].slept =
                      IF ~worker'[w].diagnosed THEN 0
                      ELSE IF worker'[w].failure_type = "timing" THEN 2
                      ELSE IF worker'[w].failure_type = "loading" THEN 3
                      ELSE IF worker'[w].failure_type \in
                                 {"wrong_element", "ui_change", "permission"} THEN 0
                      ELSE 1]_vars

\* A failure was diagnosed as loading and the recovery waited three seconds.
C29Witness ==
    \E w \in Workers :
        /\ worker[w].pc = "post"
        /\ ~worker[w].success
        /\ worker[w].diagnosed
        /\ worker[w].failure_type = "loading"
        /\ worker[w].slept = 3
        /\ failure_history # <<>>

\* C30: the thread of an accepted execute_task finds a clean run state when
\* it starts: a fresh TaskStatus (counters 0, is_running), consecutive-failure
\* counter 0, empty failure history, stop and pause flags clear; and it
\* enters its loop with a fresh context with empty histories.
C30CleanStart ==
    \A w \in Workers :
        /\ (w = Runs /\ worker[w].pc = "start")
              => /\ task_status = TaskStatus(TRUE)
                 /\ consecutive_failures = 0
                 /\ failure_history = <<>>
                 /\ ~should_stop
                 /\ ~is_paused
        /\ (w = Runs /\ worker[w].pc = "loop" /\ task_status.current_iteration = 0)
              => /\ task_status = TaskStatus(TRUE)
                 /\ context = VisionContext(current_task)
                 /\ failure_history = <<>>


\* C31: when the oracle's object carries both a ratio pair (coordinates_pct,
\* each number in [0,1]) and a pixel pair (coordinates), the plan that
\* analyze_screenshot returns, unless validation replaced it by the fallback,
\* has the coordinates (rx * screen_width, ry * screen_height) truncated to
\* integers, whatever the size of the screenshot and whatever the pixel pair.
C31RatioFormTakesPrecedence ==
    \A w \in Workers :
        LET response == worker[w].response
            data == response.data
            pct == data.coordinates_pct
        IN (/\ worker[w].pc = "execute_action"
            /\ response.kind = "json"
            /\ "coordinates_pct" \in DOMAIN data
            /\ "coordinates" \in DOMAIN data
            /\ Len(data.coordinates) = 2
            /\ Len(pct) = 2
            /\ \A i \in 1..2 : 0 <= pct[i] /\ pct[i] <= Px(1))
           => \/ worker[w].action_plan = _create_fallback_action
              \/ worker[w].action_plan.coordinates =
                    << Px(Trunc(pct[1] * ScreenWidth, RatioDen)),
                       Px(Trunc(pct[2] * ScreenHeight, RatioDen)) >>

\* C31 witness: a click answered with the ratio pair (1/2, 1/4) and the
\* pixel pair (2, 1) on a screenshot twice as large as the screen; the plan
\* is not the fallback and its point differs from the pixel pair.
C31Witness ==
    \E w \in Workers :
        /\ worker[w].pc = "execute_action"
        /\ worker[w].response.kind = "json"
        /\ "coordinates_pct" \in DOMAIN worker[w].response.data
        /\ "coordinates" \in DOMAIN worker[w].response.data
        /\ worker[w].response.data.coordinates_pct = <<RatioDen \div 2, RatioDen \div 4>>
        /\ worker[w].response.data.coordinates = <<Px(2), Px(1)>>
        /\ screenshot_size # Screen
        /\ worker[w].action_plan.action_type = "click"
        /\ worker[w].action_plan.coordinates =
              << Px(Trunc((RatioDen \div 2) * ScreenWidth, RatioDen)),
                 Px(Trunc((RatioDen \div 4) * ScreenHeight, RatioDen)) >>
        /\ worker[w].action_plan.coordinates # <<Px(2), Px(1)>>


C33CountersConsistent ==
    Runs >= 1 =>
        /\ task_status.successful_actions + task_status.failed_actions
              = task_status.total_actions
        /\ task_status.total_actions <= task_status.current_iteration
        /\ task_status.current_iteration <= max_iterations
        /\ Len(failure_history) = task_status.failed_actions
        /\ context # NoContext
              => Len(context.previous_actions) = task_status.successful_actions


\* C34: however a run ends, its worker calls _notify_completion once: no
\* worker has sent more than one completion notice, and the worker of the
\* latest run has sent exactly one when it has ended.
C34NotifiedExactlyOnce ==
    \A w \in Workers :
        /\ Len(worker[w].notified) <= 1
        /\ (w = Runs /\ worker[w].pc = "done") => Len(worker[w].notified) = 1


\* C35: the observers are scoped to their run: when the worker of a run has
\* published a status or sent a completion notice, the three observer lists
\* hold the observers registered for that run and no others.
C35ObserversScopedToRun ==
    \A w \in Workers :
        (w = Runs /\ (worker[w].published > 0 \/ worker[w].notified # <<>>))
           => /\ status_callbacks = <<w>>
              /\ narration_callbacks = <<w>>
              /\ completion_callbacks = <<w>>


\* C36: once the emergency-stop flag is set while a task is running, and is
\* not reset, the run eventually ends with is_running = false, whether the
\* task is paused or not.
C36EmergencyStopEndsPausedRun ==
    (emergency_stop /\ task_status.is_running) ~> ~task_status.is_running


\* C37: starting a task leaves the emergency-stop flag as it is, and a run
\* started with the flag set from an earlier activation, with no stop or
\* pause request, performs no iteration and no gesture for as long as the
\* flag is not reset, and goes to its end with is_running = false, the
\* message 'Emergency stop activated' and a failure notice.
C37StartKeepsEmergencyStop ==
    [][/\ Runs' > Runs => emergency_stop' = emergency_stop
       /\ \A w \in Workers :
             (worker'[w].pc \notin {"none", "done"} /\ emergency_stop')
                => /\ worker'[w].pc \in {"start", "loop", "pause_check",
                                         "emergency_check", "completion"}
                   /\ task_status'.current_iteration = 0
                   /\ task_status'.total_actions = 0
                   /\ gestures' = <<>>
                   /\ worker'[w].pc = "completion"
                         => /\ ~task_status'.is_running
                            /\ task_status'.error_message = "Emergency stop activated"
                            /\ worker'[w].notified =
                                  <<[success |-> FALSE, message |-> "Emergency stop"]>>]_vars

\* C37 witness: the second run was started with the flag set and has been
\* ended by the emergency-stop test before its first iteration.
C37Witness ==
    /\ emergency_stop
    /\ Runs = 2
    /\ worker[2].pc = "completion"
    /\ task_status.current_iteration = 0
    /\ task_status.error_message = "Emergency stop activated"
    /\ gestures = <<>>


\* C38: every point at which the actuator moves, clicks or ends a drag lies
\* within the screen: the plan's own point, the points suggested during the
\* click negotiation and the end point of a drag.
C38GesturesWithinScreen ==
    \A i \in DOMAIN gestures :
        gestures[i].at # <<>> => InBounds(gestures[i].at[1], gestures[i].at[2], Screen)


\* C39: no run executes more than max_iterations iterations, and if the
\* pause flag is eventually released for good, every worker that is started
\* eventually ends, with is_running = false.
C39RunTerminates ==
    /\ [](task_status.current_iteration <= max_iterations)
    /\ (<>[](~is_paused))
          => \A w \in Workers :
                (worker[w].pc = "start")
                   ~> (worker[w].pc = "done" /\ ~task_status.is_running)

\* C39 witness: a worker has ended after max_iterations iterations, with
\* is_running = false.
C39Witness ==
    \E w \in Workers :
        /\ worker[w].pc = "done"
        /\ ~task_status.is_running
        /\ task_status.current_iteration = max_iterations


\* C40: whenever a call of execute_task is accepted no worker of an earlier
\* run is still alive, so the only worker that is ever alive is the one of
\* the latest run.
C40AcceptedAfterWorkerEnded ==
    [][/\ \A c \in Callers :
             (caller[c].pc = "idle" /\ caller'[c].pc = "admitted")
                => \A w \in Workers : ~Alive(w)
       /\ \A w \in Workers :
             worker'[w].pc \notin {"none", "done"} => w = Runs']_vars

=============================================================================
